---- MODULE Spec2Model ----
(***************************************************************************)
(* Live-sync scheduling and orphan reconciliation of the Confluence        *)
(* plugin (src/src/main.ts, class ConfluencePlugin).                       *)
(*                                                                         *)
(* The plugin runs on one JavaScript event loop.  Every handler is an      *)
(* async function: it runs without interruption up to an await on real     *)
(* I/O (vault read, publisher.publish, deleteContent, clearConfluence-     *)
(* PageId, saveData, loadData) and is resumed later.  A task of the model  *)
(* is one invocation of a handler; tasks[t].pc names the await the task    *)
(* is suspended at.  One action of the model is one run of a task from a   *)
(* resumption to its next suspension.  An await on a call that returns     *)
(* without I/O resumes in the same turn of the loop and is not a           *)
(* suspension.                                                             *)
(***************************************************************************)
EXTENDS Integers, Sequences, FiniteSets, TLC

(* ------------------------------------------------------------------ *)
(* Bounds of the model                                                  *)
(* ------------------------------------------------------------------ *)

\* Number of handler invocations that may be suspended at the same time.
MaxTasks == 2

\* The clock (Date.now(), in hours) runs from 0 to MaxTime.
MaxTime == 2

(* ------------------------------------------------------------------ *)
(* Values                                                               *)
(* ------------------------------------------------------------------ *)

\* Paths are sequences of path pieces, so that startsWith is computed.
PA == <<"Docs", "/", "a", ".md">>
PB == <<"Other", "/", "b", ".md">>
Paths == {PA, PB}

\* Iteration order of the vault and of the keys of a persisted record.
PathOrder == <<PA, PB>>

\* File contents; Missing is the content of a path that has no file.
Contents == {"x", "y"}
Missing == "missing"

\* A value that is not there (undefined / null).
None == "none"

\* No path: an undefined publishFilter.
NoPath == <<>>

\* The Confluence page ids the pipeline reports.
PageIdOf(p) == IF p = PA THEN "1" ELSE "2"

Strategies == {"on-save", "interval", "both"}

Tasks == 1..MaxTasks

(* ------------------------------------------------------------------ *)
(* Sequence and record helpers                                          *)
(* ------------------------------------------------------------------ *)

Range(s) == {s[i] : i \in 1..Len(s)}

RECURSIVE FilterSeq(_, _)
\* Array.prototype.filter with the predicate given as the set of kept values.
FilterSeq(s, keep) ==
  IF s = <<>> THEN <<>>
  ELSE IF Head(s) \in keep THEN <<Head(s)>> \o FilterSeq(Tail(s), keep)
       ELSE FilterSeq(Tail(s), keep)

\* delete obj[key]
MapDelete(m, k) == [q \in (DOMAIN m) \ {k} |-> m[q]]

\* obj[key] = value
MapPut(m, k, v) == [q \in (DOMAIN m) \cup {k} |-> IF q = k THEN v ELSE m[q]]

\* obj[key], undefined when the key is absent
MapGet(m, k) == IF k \in DOMAIN m THEN m[k] ELSE None

EmptyMap == [q \in {} |-> None]

(* ------------------------------------------------------------------ *)
(* The state of the plugin and of its collaborators                     *)
(* ------------------------------------------------------------------ *)

VARIABLES
  liveSyncEnabled,        \* settings.liveSyncEnabled
  liveSyncStrategy,       \* settings.liveSyncStrategy
  folderToPublish,        \* settings.folderToPublish
  keyBacklink,            \* settings.keyBacklink
  lastOrphanCleanupTs,    \* settings.lastOrphanCleanupTs
  liveSyncHashes,         \* settings.liveSyncHashes: path -> fingerprint
  backlinkPublishState,   \* settings.backlinkPublishState: path -> page id
  isSyncing,              \* the single-flight flag
  liveSyncQueue,          \* Set<string>, in insertion order
  liveSyncTimeout,        \* TRUE when the debounce handle is not null
  timeouts,               \* number of debounce callbacks pending in the loop
  liveSyncIntervalId,     \* TRUE when the interval handle is not null
  intervals,              \* number of interval timers armed in the loop
  statusBar,              \* the label shown: <<state, detail>>
  disk,                   \* what saveData wrote last (data.json)
  vault,                  \* path -> content of the file, or Missing
  metadataCache,          \* path -> [links, embeds] of the note
  now,                    \* Date.now()
  tasks,                  \* the suspended handler invocations
  events,                 \* what the last step did that no field keeps
  deferred                \* history: paths queued when a flush was put off

vars == <<liveSyncEnabled, liveSyncStrategy, folderToPublish, keyBacklink,
          lastOrphanCleanupTs, liveSyncHashes, backlinkPublishState,
          isSyncing, liveSyncQueue, liveSyncTimeout, timeouts,
          liveSyncIntervalId, intervals, statusBar, disk, vault,
          metadataCache, now, tasks, events, deferred>>

\* The state as one record: the handlers below are functions on it.
cur ==
  [liveSyncEnabled |-> liveSyncEnabled, liveSyncStrategy |-> liveSyncStrategy,
   folderToPublish |-> folderToPublish, keyBacklink |-> keyBacklink,
   lastOrphanCleanupTs |-> lastOrphanCleanupTs,
   liveSyncHashes |-> liveSyncHashes,
   backlinkPublishState |-> backlinkPublishState,
   isSyncing |-> isSyncing, liveSyncQueue |-> liveSyncQueue,
   liveSyncTimeout |-> liveSyncTimeout, timeouts |-> timeouts,
   liveSyncIntervalId |-> liveSyncIntervalId, intervals |-> intervals,
   statusBar |-> statusBar, disk |-> disk, vault |-> vault,
   metadataCache |-> metadataCache, now |-> now, tasks |-> tasks,
   events |-> {}, deferred |-> deferred]

\* The next state is the record st.
Commit(st) ==
  /\ liveSyncEnabled' = st.liveSyncEnabled
  /\ liveSyncStrategy' = st.liveSyncStrategy
  /\ folderToPublish' = st.folderToPublish
  /\ keyBacklink' = st.keyBacklink
  /\ lastOrphanCleanupTs' = st.lastOrphanCleanupTs
  /\ liveSyncHashes' = st.liveSyncHashes
  /\ backlinkPublishState' = st.backlinkPublishState
  /\ isSyncing' = st.isSyncing
  /\ liveSyncQueue' = st.liveSyncQueue
  /\ liveSyncTimeout' = st.liveSyncTimeout
  /\ timeouts' = st.timeouts
  /\ liveSyncIntervalId' = st.liveSyncIntervalId
  /\ intervals' = st.intervals
  /\ statusBar' = st.statusBar
  /\ disk' = st.disk
  /\ vault' = st.vault
  /\ metadataCache' = st.metadataCache
  /\ now' = st.now
  /\ tasks' = st.tasks
  /\ events' = st.events
  /\ deferred' = st.deferred

\* A free task slot.  The fields are the locals of the handlers.
NoTask ==
  [kind |-> "none", pc |-> "idle",
   queuedPaths |-> <<>>, qi |-> 0, targets |-> <<>>, ti |-> 0,
   hashesUpdated |-> FALSE, attempts |-> <<>>,
   filter |-> NoPath, cleanup |-> FALSE, results |-> <<>>,
   eligible |-> {}, staleEntries |-> <<>>, si |-> 0, deletedPaths |-> <<>>,
   failedDeletions |-> <<>>, mutated |-> FALSE, live |-> TRUE,
   calls |-> <<>>, saves |-> 0,
   now |-> 0, force |-> FALSE, cret |-> None, rret |-> None]

(* ------------------------------------------------------------------ *)
(* Pure functions                                                       *)
(* ------------------------------------------------------------------ *)

\* String.prototype.startsWith
StartsWith(s, pre) == Len(pre) <= Len(s) /\ SubSeq(s, 1, Len(pre)) = pre

RECURSIVE StripTrailingSlashes(_)
\* folderFilter.replace(/\/+$/, "")
StripTrailingSlashes(f) ==
  IF f # <<>> /\ f[Len(f)] = "/"
  THEN StripTrailingSlashes(SubSeq(f, 1, Len(f) - 1))
  ELSE f

RECURSIVE TrimLeft(_)
TrimLeft(f) == IF f # <<>> /\ Head(f) = " " THEN TrimLeft(Tail(f)) ELSE f

RECURSIVE TrimRight(_)
TrimRight(f) ==
  IF f # <<>> /\ f[Len(f)] = " " THEN TrimRight(SubSeq(f, 1, Len(f) - 1)) ELSE f

\* String.prototype.trim
Trim(f) == TrimLeft(TrimRight(f))

\* String.prototype.toLowerCase, piece by piece
LowerPiece(c) ==
  CASE c = "Atlassian" -> "atlassian"
    [] c = "Docs" -> "docs"
    [] c = "Other" -> "other"
    [] OTHER -> c

ToLowerCase(f) == [i \in 1..Len(f) |-> LowerPiece(f[i])]

\* normalizeBacklinkKey: the link without its [[ ]] and surrounding blanks.
normalizeBacklinkKey(k) ==
  Trim(FilterSeq(Trim(k), Range(k) \ {"[[", "]]"}))

\* file.extension
Extension(p) == IF p # <<>> /\ p[Len(p)] = ".md" THEN "md" ELSE "other"

\* vault.getAbstractFileByPath(path) instanceof TFile
IsTFile(st, p) == p \in DOMAIN st.vault /\ st.vault[p] # Missing

getNormalizedBacklinkKey(st) == normalizeBacklinkKey(st.keyBacklink)

\* The folder rule alone: the required wikilink is never looked at.
isFileInFolderOrNoFolder(st, p) ==
  LET normalizedFolder == StripTrailingSlashes(Trim(st.folderToPublish))
  IN IF Len(normalizedFolder) > 0
     THEN p = normalizedFolder \/ StartsWith(p, normalizedFolder \o <<"/">>)
     ELSE TRUE

isFileEligibleForLiveSync(st, p) ==
  LET folderFilter == Trim(st.folderToPublish)
      normalizedFolder == StripTrailingSlashes(folderFilter)
      folderFilterActive == Len(normalizedFolder) > 0
      normalizedKey == getNormalizedBacklinkKey(st)
      backlinkFilterActive == Len(normalizedKey) > 0
      isInFolder ==
        IF folderFilterActive
        THEN p = normalizedFolder \/ StartsWith(p, normalizedFolder \o <<"/">>)
        ELSE FALSE
      cache == st.metadataCache[p]
      normalizedNeedle == ToLowerCase(normalizedKey)
      matches(ls) ==
        \E l \in ls : ToLowerCase(normalizeBacklinkKey(l)) = normalizedNeedle
  IN IF folderFilterActive /\ isInFolder THEN TRUE
     ELSE IF folderFilterActive /\ ~backlinkFilterActive THEN FALSE
     ELSE IF ~folderFilterActive /\ ~backlinkFilterActive THEN TRUE
     ELSE IF ~backlinkFilterActive THEN TRUE
     ELSE IF ~cache.cached THEN FALSE
     ELSE IF matches(cache.links) THEN TRUE
     ELSE matches(cache.embeds)

\* vault.getMarkdownFiles(), in the vault's order
getMarkdownFiles(st) ==
  FilterSeq(PathOrder, {p \in Paths : IsTFile(st, p) /\ Extension(p) = "md"})

collectEligibleLiveSyncPaths(st) ==
  FilterSeq(getMarkdownFiles(st),
            {p \in Paths : isFileEligibleForLiveSync(st, p)})

\* SparkMD5.hash: a digest that tells the contents of the model apart.
SparkMD5Hash(c) == IF c = "x" THEN "md5-x" ELSE "md5-y"

shouldUseOnSaveSync(st) ==
  IF ~st.liveSyncEnabled THEN FALSE
  ELSE st.liveSyncStrategy = "on-save" \/ st.liveSyncStrategy = "both"

shouldUseIntervalSync(st) ==
  IF ~st.liveSyncEnabled THEN FALSE
  ELSE st.liveSyncStrategy = "interval" \/ st.liveSyncStrategy = "both"

\* Math.max(1, settings.orphanCleanupIntervalHours), the cadence in hours
orphanCleanupIntervalHours == 2

\* The errors a remote call rejects with.  http: instanceof HTTPError.
ErrorShape(http, status, statusCode, bodyCode, dataCode, message) ==
  [http |-> http, status |-> status, statusCode |-> statusCode,
   bodyCode |-> bodyCode, dataCode |-> dataCode, message |-> message]

\* A code of 0 is a field that is not there.
HttpNotFound == ErrorShape(TRUE, 404, 0, 0, 0, "other")
HttpServerError == ErrorShape(TRUE, 500, 0, 0, 0, "other")
StatusCodeNotFound == ErrorShape(FALSE, 0, 404, 0, 0, None)
BodyNotFound == ErrorShape(FALSE, 0, 0, 404, 0, None)
ResponseNotFound == ErrorShape(FALSE, 404, 0, 0, 0, None)
DataNotFound == ErrorShape(FALSE, 500, 0, 0, 404, None)
MessageNotFound == ErrorShape(FALSE, 0, 0, 0, 0, "NotFoundException")
MessageStatusNotFound == ErrorShape(FALSE, 0, 0, 0, 0, "statusCode:404")
PlainError == ErrorShape(FALSE, 0, 0, 0, 0, "other")
Forbidden == ErrorShape(FALSE, 403, 403, 0, 0, None)

\* No error: the call resolved.
NoError == ErrorShape(FALSE, 0, 0, 0, 0, "resolved")

RemoteErrors ==
  {HttpNotFound, HttpServerError, StatusCodeNotFound, BodyNotFound,
   ResponseNotFound, DataNotFound, MessageNotFound, MessageStatusNotFound,
   PlainError, Forbidden}

\* Line 949 alone: only an HTTPError with status 404 counts.
isHttpNotFound(e) == e # NoError /\ e.http /\ e.status = 404

isConfluenceNotFound(e) ==
  IF e = NoError THEN FALSE
  ELSE IF e.http THEN e.status = 404
  ELSE IF e.statusCode = 404 THEN TRUE
  ELSE IF e.bodyCode = 404 THEN TRUE
  ELSE IF e.status = 404 THEN TRUE
  ELSE IF e.dataCode = 404 THEN TRUE
  ELSE IF e.message = None THEN FALSE
  ELSE e.message = "NotFoundException" \/ e.message = "statusCode:404"

\* error instanceof Error ? error.message : JSON.stringify(error)
ReasonOf(e) == IF e.message # None THEN e.message ELSE "json"

(* ------------------------------------------------------------------ *)
(* Synchronous methods: functions from state to state                   *)
(* ------------------------------------------------------------------ *)

Emit(st, e) == [st EXCEPT !.events = @ \cup {e}]

\* updateStatusBar(state, detail): the label is the state and, when detail
\* is a number other than 0, the number.
updateStatusBar(st, state, detail) ==
  [st EXCEPT !.statusBar =
     IF state = "idle" THEN <<"idle", 0>> ELSE <<state, detail>>]

\* What saveData(this.settings) writes.
Persisted(st) ==
  [liveSyncEnabled |-> st.liveSyncEnabled,
   liveSyncStrategy |-> st.liveSyncStrategy,
   folderToPublish |-> st.folderToPublish,
   keyBacklink |-> st.keyBacklink,
   lastOrphanCleanupTs |-> st.lastOrphanCleanupTs,
   liveSyncHashes |-> st.liveSyncHashes,
   backlinkPublishState |-> st.backlinkPublishState]

\* saveData(this.settings): the settings are serialised at the call.
saveData(st) == [st EXCEPT !.disk = Persisted(st)]

\* scheduleLiveSync without lines 706-708: the armed timer is left to fire.
scheduleLiveSyncNoCancel(st) ==
  [st EXCEPT !.timeouts = @ + 1, !.liveSyncTimeout = TRUE]

\* window.setTimeout of scheduleLiveSync, after clearing the armed one.
scheduleLiveSync(st) ==
  LET cleared == IF st.liveSyncTimeout THEN st.timeouts - 1 ELSE st.timeouts
  IN [st EXCEPT !.timeouts = cleared + 1, !.liveSyncTimeout = TRUE]

\* clearLiveSyncQueue that leaves the queue and the timer alone while a
\* cycle is in flight.
clearLiveSyncQueueUnlessSyncing(st) ==
  IF st.isSyncing THEN st
  ELSE LET s1 == [st EXCEPT !.liveSyncQueue = <<>>, !.deferred = {}]
           s2 == IF s1.liveSyncTimeout
                 THEN [s1 EXCEPT !.timeouts = @ - 1, !.liveSyncTimeout = FALSE]
                 ELSE s1
       IN updateStatusBar(s2, "idle", 0)

clearLiveSyncQueue(st) ==
  LET s1 == [st EXCEPT !.liveSyncQueue = <<>>, !.deferred = {}]
      s2 == IF s1.liveSyncTimeout
            THEN [s1 EXCEPT !.timeouts = @ - 1, !.liveSyncTimeout = FALSE]
            ELSE s1
  IN IF ~s2.isSyncing THEN updateStatusBar(s2, "idle", 0) ELSE s2

clearIntervalSyncTask(st) ==
  IF st.liveSyncIntervalId
  THEN [st EXCEPT !.intervals = @ - 1, !.liveSyncIntervalId = FALSE]
  ELSE st

\* ensureIntervalSyncTask without line 844: the interval that runs is not
\* cleared.
ensureIntervalSyncTaskNoClear(st) ==
  IF ~shouldUseIntervalSync(st) THEN st
  ELSE [st EXCEPT !.intervals = @ + 1, !.liveSyncIntervalId = TRUE]

ensureIntervalSyncTask(st) ==
  LET s1 == clearIntervalSyncTask(st)
  IN IF ~shouldUseIntervalSync(s1) THEN s1
     ELSE [s1 EXCEPT !.intervals = @ + 1, !.liveSyncIntervalId = TRUE]

syncLiveSyncRuntimeState(st) ==
  IF ~st.liveSyncEnabled
  THEN updateStatusBar(clearIntervalSyncTask(clearLiveSyncQueue(st)), "idle", 0)
  ELSE LET s1 == IF ~shouldUseOnSaveSync(st) THEN clearLiveSyncQueue(st) ELSE st
       IN ensureIntervalSyncTask(s1)

\* Array.prototype.push in the place of Set.prototype.add: a queue that
\* keeps every event.
QueuePush(q, p) == Append(q, p)

\* Set.prototype.add
QueueAdd(q, p) == IF p \in Range(q) THEN q ELSE Append(q, p)

RECURSIVE QueueAddAll(_, _)
QueueAddAll(q, ps) ==
  IF ps = <<>> THEN q ELSE QueueAddAll(QueueAdd(q, Head(ps)), Tail(ps))

pruneMissingLiveSyncHashes(st) ==
  LET gone == {p \in DOMAIN st.liveSyncHashes : ~(p \in DOMAIN st.vault /\ st.vault[p] # Missing)}
      s1 == [st EXCEPT !.liveSyncHashes = [q \in (DOMAIN @) \ gone |-> @[q]]]
  IN IF gone # {} THEN saveData(s1) ELSE st

\* onVaultFileModified without the test of line 648: any file that was
\* modified is queued.
onAnyFileModified(st, p) ==
  IF ~st.liveSyncEnabled \/ ~shouldUseOnSaveSync(st) THEN st
  ELSE IF ~IsTFile(st, p) THEN st
  ELSE IF Extension(p) # "md" THEN st
  ELSE LET s1 == [st EXCEPT !.liveSyncQueue = QueueAdd(@, p)]
           s2 == updateStatusBar(s1, "pending", Len(s1.liveSyncQueue))
       IN scheduleLiveSync(s2)

\* The part of onVaultFileModified after the guard on the settings.
onVaultFileModified(st, p) ==
  IF ~st.liveSyncEnabled \/ ~shouldUseOnSaveSync(st) THEN st
  ELSE IF ~IsTFile(st, p) THEN st
  ELSE IF Extension(p) # "md" THEN st
  ELSE IF ~isFileEligibleForLiveSync(st, p) THEN st
  ELSE LET s1 == [st EXCEPT !.liveSyncQueue = QueueAdd(@, p)]
           s2 == updateStatusBar(s1, "pending", Len(s1.liveSyncQueue))
       IN scheduleLiveSync(s2)

(* ------------------------------------------------------------------ *)
(* Asynchronous methods.  Each operator runs task t on from a point of  *)
(* the code to the next await on I/O, where it leaves tasks[t].pc.      *)
(* ------------------------------------------------------------------ *)

Suspend(st, t, pc) == [st EXCEPT !.tasks[t].pc = pc]

\* The locals of a call that returned are dead: they are put back to their
\* initial values so that states differing only in dead locals are one state.
DropLocals(st, t, fields) ==
  [st EXCEPT !.tasks[t] =
     [f \in DOMAIN NoTask |-> IF f \in fields THEN NoTask[f] ELSE @[f]]]

PublishLocals == {"filter", "cleanup", "results"}
OrphansLocals ==
  {"eligible", "staleEntries", "si", "deletedPaths", "failedDeletions", "mutated",
   "live", "calls", "saves", "rret"}
CleanupLocals == {"now", "force", "cret"}

\* The handler invocation is over (returned or rejected).
TaskEnd(st, t) == [st EXCEPT !.tasks[t] = NoTask]

\* handleIntervalSyncTick, after its if/else
TickAfter(st, t) ==
  TaskEnd(Emit(pruneMissingLiveSyncHashes(st),
               [type |-> "pruned", task |-> t, before |-> st.liveSyncHashes]), t)

\* flushLiveSyncQueue returns to its caller: the timer callback (void) or
\* handleIntervalSyncTick.
FlushReturn(st, t) ==
  IF st.tasks[t].kind = "tick" THEN TickAfter(st, t) ELSE TaskEnd(st, t)

\* maybeRunOrphanCleanup returns to the call site cret.
CleanupReturn(s0, t) ==
  LET cret == s0.tasks[t].cret
      st == Emit(DropLocals(s0, t, CleanupLocals),
                 [type |-> "checked", task |-> t, cret |-> cret])
  IN CASE cret = "flushEmpty" ->
            FlushReturn(IF ~st.isSyncing THEN updateStatusBar(st, "idle", 0)
                        ELSE st, t)
       [] cret = "flushNoTargets" ->
            FlushReturn(updateStatusBar(st, "idle", 0), t)
       [] cret = "flushFinally" -> FlushReturn(st, t)
       [] cret = "tickElse" -> TickAfter(st, t)
       [] OTHER -> TaskEnd(st, t)

\* The try/catch/finally around doPublish of the ribbon handler and of the
\* publish-all and publish-current commands: the flag is reset.
UserPublishFinally(st, t) == TaskEnd([st EXCEPT !.isSyncing = FALSE], t)

RECURSIVE FlushPublishLoop(_, _)
RECURSIVE maybeRunOrphanCleanup(_, _, _, _)

\* doPublish returns its UploadResults to the caller.
DoPublishReturn(s0, t) ==
  LET me == s0.tasks[t]
      failedFiles == {i \in 1..Len(me.results) : ~me.results[i].ok}
      st == DropLocals(s0, t, PublishLocals)
  IN IF me.kind \in {"flush", "tick"}
     THEN LET target == me.targets[me.ti]
              s1 == IF failedFiles = {}
                    THEN [st EXCEPT
                            !.liveSyncHashes = MapPut(@, target.path, target.hash),
                            !.tasks[t].hashesUpdated = TRUE]
                    ELSE st
              s2 == Emit(s1, [type |-> "published", task |-> t,
                              path |-> target.path, hash |-> target.hash,
                              results |-> me.results,
                              before |-> MapGet(s0.liveSyncHashes, target.path)])
          IN FlushPublishLoop([s2 EXCEPT !.tasks[t].ti = @ + 1], t)
     ELSE UserPublishFinally(st, t)

RECURSIVE BacklinkStateNoDelete(_, _)
\* The loop of updateBacklinkState without its else branch (lines 592-595):
\* an entry is never removed.
BacklinkStateNoDelete(state, results) ==
  IF results = <<>> THEN state
  ELSE LET r == Head(results)
           next == IF r.pageId # None /\ r.pageId # "" /\ MapGet(state, r.path) # r.pageId
                   THEN MapPut(state, r.path, r.pageId)
                   ELSE state
       IN BacklinkStateNoDelete(next, Tail(results))

RECURSIVE BacklinkStateAfter(_, _)
\* The loop of updateBacklinkState over the results.
BacklinkStateAfter(state, results) ==
  IF results = <<>> THEN state
  ELSE LET r == Head(results)
           next == IF r.pageId # None /\ r.pageId # ""
                   THEN IF MapGet(state, r.path) # r.pageId
                        THEN MapPut(state, r.path, r.pageId)
                        ELSE state
                   ELSE IF MapGet(state, r.path) \notin {None, ""}
                        THEN MapDelete(state, r.path)
                        ELSE state
       IN BacklinkStateAfter(next, Tail(results))

\* updateBacklinkState(adrFiles) and the rest of doPublish
updateBacklinkState(st, t) ==
  LET after == BacklinkStateAfter(st.backlinkPublishState, st.tasks[t].results)
      mutated == after # st.backlinkPublishState
      s1 == Emit(st, [type |-> "backlinks", task |-> t,
                      results |-> st.tasks[t].results,
                      before |-> st.backlinkPublishState])
  IN IF mutated
     THEN Suspend(saveData([s1 EXCEPT !.backlinkPublishState = after]), t, "ubs_save")
     ELSE DoPublishReturn(s1, t)

\* maybeRunOrphanCleanup after removeBacklinkOrphans returned its stats
CleanupAfterPass(st, t) ==
  LET me == st.tasks[t]
      s1 == Emit(st, [type |-> "cleanup", task |-> t, force |-> me.force,
                      now |-> me.now, failed |-> FALSE])
  IN Suspend(saveData([s1 EXCEPT !.lastOrphanCleanupTs = me.now]), t, "mc_save")

\* removeBacklinkOrphans returns its stats to doPublish or to
\* maybeRunOrphanCleanup.
OrphansReturn(s0, t) ==
  LET me == s0.tasks[t]
      st == Emit(DropLocals(s0, t, OrphansLocals),
                 [type |-> "stats", task |-> t,
                  deletedPaths |-> me.deletedPaths,
                  failedDeletions |-> me.failedDeletions,
                  saves |-> me.saves,
                  calls |-> me.calls,
                  staleEntries |-> me.staleEntries,
                  after |-> s0.backlinkPublishState])
  IN IF me.rret = "doPublish" THEN updateBacklinkState(st, t)
     ELSE CleanupAfterPass(st, t)

\* removeBacklinkOrphans rejects: doPublish rejects into the handler's
\* catch and finally; maybeRunOrphanCleanup rejects and so does its caller.
OrphansThrow(st, t) ==
  LET me == st.tasks[t]
  IN IF me.rret = "doPublish" THEN UserPublishFinally(st, t)
     ELSE TaskEnd(Emit(st, [type |-> "cleanup", task |-> t, force |-> me.force,
                            now |-> me.now, failed |-> TRUE, kind |-> me.kind,
                            cret |-> me.cret]), t)

\* delete state[path] on the object removeBacklinkOrphans took at its start;
\* it is settings.backlinkPublishState unless the settings were reloaded.
\* delete state[path] followed by a saveData of its own for each entry.
DropMappingAndSave(st, t, path) ==
  LET s1 == IF st.tasks[t].live
            THEN [st EXCEPT !.backlinkPublishState = MapDelete(@, path)]
            ELSE st
  IN saveData([s1 EXCEPT !.tasks[t].mutated = TRUE, !.tasks[t].saves = @ + 1])

DropMapping(st, t, path) ==
  LET s1 == IF st.tasks[t].live
            THEN [st EXCEPT !.backlinkPublishState = MapDelete(@, path)]
            ELSE st
  IN [s1 EXCEPT !.tasks[t].mutated = TRUE]

RECURSIVE OrphansLoop(_, _)
\* The for loop of removeBacklinkOrphans, from entry si on.
OrphansLoop(st, t) ==
  LET me == st.tasks[t]
  IN IF me.si > Len(me.staleEntries)
     THEN IF me.mutated
          THEN Suspend(saveData([st EXCEPT !.tasks[t].saves = @ + 1]), t, "rbo_save")
          ELSE OrphansReturn(st, t)
     ELSE LET entry == me.staleEntries[me.si]
          IN IF entry.pageId = ""
             THEN OrphansLoop([DropMapping(st, t, entry.path)
                                 EXCEPT !.tasks[t].si = @ + 1], t)
             ELSE Suspend([st EXCEPT !.tasks[t].calls = Append(@, entry.pageId)],
                          t, "delete")

\* Object.entries(state) without the filter
AllEntries(state, currentEligiblePaths) ==
  LET all == FilterSeq(PathOrder, DOMAIN state)
  IN [i \in 1..Len(all) |-> [path |-> all[i], pageId |-> state[all[i]]]]

\* Object.entries(state).filter(([path]) => !currentEligiblePaths.has(path))
StaleEntries(state, currentEligiblePaths) ==
  LET stale == FilterSeq(PathOrder, (DOMAIN state) \ currentEligiblePaths)
  IN [i \in 1..Len(stale) |-> [path |-> stale[i], pageId |-> state[stale[i]]]]

removeBacklinkOrphans(st, t, currentEligiblePaths, rret) ==
  LET staleEntries == StaleEntries(st.backlinkPublishState, currentEligiblePaths)
      s1 == [st EXCEPT !.tasks[t].eligible = currentEligiblePaths,
                       !.tasks[t].staleEntries = staleEntries,
                       !.tasks[t].si = 1,
                       !.tasks[t].deletedPaths = <<>>,
                       !.tasks[t].failedDeletions = <<>>,
                       !.tasks[t].mutated = FALSE,
                       !.tasks[t].live = TRUE,
                       !.tasks[t].calls = <<>>,
                       !.tasks[t].saves = 0,
                       !.tasks[t].rret = rret]
      s2 == Emit(s1, [type |-> "reconcile", task |-> t,
                      eligible |-> currentEligiblePaths,
                      rret |-> rret,
                      before |-> st.backlinkPublishState])
  IN IF Len(staleEntries) = 0 THEN OrphansReturn(s2, t)
     ELSE OrphansLoop(s2, t)

maybeRunOrphanCleanup(st, t, force, cret) ==
  LET intervalMs == IF orphanCleanupIntervalHours < 1 THEN 1
                    ELSE orphanCleanupIntervalHours
      last == st.lastOrphanCleanupTs
      s1 == Emit([st EXCEPT !.tasks[t].cret = cret, !.tasks[t].force = force,
                            !.tasks[t].now = st.now],
                 [type |-> "cooldown", task |-> t, cret |-> cret])
  IN IF ~force /\ st.now - last < intervalMs THEN CleanupReturn(s1, t)
     ELSE removeBacklinkOrphans(s1, t, Range(collectEligibleLiveSyncPaths(s1)),
                                "maybeRun")

\* The finally block of flushLiveSyncQueue
FlushFinally(st, t) ==
  LET me == st.tasks[t]
      s0 == Emit(st, [type |-> "flushed", task |-> t,
                      targets |-> [i \in 1..Len(me.targets) |-> me.targets[i].path],
                      attempts |-> me.attempts])
      s1 == [DropLocals(s0, t, {"queuedPaths", "qi", "targets", "ti",
                                "hashesUpdated", "attempts"})
               EXCEPT !.isSyncing = FALSE]
      s2 == IF Len(s1.liveSyncQueue) = 0 THEN updateStatusBar(s1, "idle", 0)
            ELSE s1
  IN maybeRunOrphanCleanup(s2, t, FALSE, "flushFinally")

\* doPublish with shouldCleanup always true.
doPublishWithCleanup(st, t, publishFilter, skipCleanup) ==
  Suspend([st EXCEPT !.tasks[t].filter = publishFilter,
                     !.tasks[t].attempts = Append(@, publishFilter),
                     !.tasks[t].cleanup = TRUE,
                     !.tasks[t].results = <<>>], t, "publish")

\* doPublish(publishFilter, options) up to the await of publisher.publish
doPublish(st, t, publishFilter, skipCleanup) ==
  LET shouldCleanup == ~(IF skipCleanup # "undefined" THEN skipCleanup = "true"
                         ELSE publishFilter # NoPath)
  IN Suspend([st EXCEPT !.tasks[t].filter = publishFilter,
                        !.tasks[t].attempts = Append(@, publishFilter),
                        !.tasks[t].cleanup = shouldCleanup,
                        !.tasks[t].results = <<>>], t, "publish")

\* The for loop over the targets of flushLiveSyncQueue, from target ti on.
FlushPublishLoop(st, t) ==
  LET me == st.tasks[t]
  IN IF me.ti > Len(me.targets)
     THEN IF me.hashesUpdated THEN Suspend(saveData(st), t, "hash_save")
          ELSE FlushFinally(st, t)
     ELSE doPublish(st, t, me.targets[me.ti].path, "true")

\* flushLiveSyncQueue after the loop that computes the hashes
FlushAfterHash(st, t) ==
  LET me == st.tasks[t]
  IN IF Len(me.targets) = 0
     THEN maybeRunOrphanCleanup(
            Emit(st, [type |-> "drained", task |-> t, attempts |-> me.attempts,
                      syncing |-> st.isSyncing]),
            t, FALSE, "flushNoTargets")
     ELSE LET s1 == [st EXCEPT !.isSyncing = TRUE,
                               !.tasks[t].hashesUpdated = FALSE,
                               !.tasks[t].ti = 1]
          IN FlushPublishLoop(updateStatusBar(s1, "syncing", Len(me.targets)), t)

RECURSIVE FlushHashLoop(_, _)
\* The loop over queuedPaths, from path qi on.  computeFileHash returns
\* null without I/O when the path is not a file, and awaits vault.read
\* otherwise.
FlushHashLoop(st, t) ==
  LET me == st.tasks[t]
  IN IF me.qi > Len(me.queuedPaths) THEN FlushAfterHash(st, t)
     ELSE LET path == me.queuedPaths[me.qi]
          IN IF ~IsTFile(st, path)
             THEN FlushHashLoop(
                    Emit([st EXCEPT !.tasks[t].qi = @ + 1,
                                    !.deferred = @ \ {path}],
                         [type |-> "filter", task |-> t, kind |-> me.kind, path |-> path,
                          hash |-> None,
                          stored |-> MapGet(st.liveSyncHashes, path),
                          target |-> FALSE]), t)
             ELSE Suspend(st, t, "read")

\* flushLiveSyncQueue without line 730: a flush that finds a cycle in
\* flight returns without arming the timer again.
flushLiveSyncQueueNoReschedule(s0, t) ==
  LET st == Emit(s0, [type |-> "flush", task |-> t, queue |-> s0.liveSyncQueue,
                      syncing |-> s0.isSyncing])
  IN
  IF ~st.liveSyncEnabled THEN FlushReturn(clearLiveSyncQueue(st), t)
  ELSE IF Len(st.liveSyncQueue) = 0
  THEN maybeRunOrphanCleanup(st, t, FALSE, "flushEmpty")
  ELSE IF st.isSyncing
  THEN FlushReturn(
         Emit([st EXCEPT !.deferred = @ \cup Range(st.liveSyncQueue)],
              [type |-> "deferred", task |-> t]), t)
  ELSE FlushHashLoop([st EXCEPT !.tasks[t].queuedPaths = st.liveSyncQueue,
                                !.tasks[t].qi = 1,
                                !.tasks[t].targets = <<>>,
                                !.liveSyncQueue = <<>>], t)

flushLiveSyncQueue(s0, t) ==
  LET st == Emit(s0, [type |-> "flush", task |-> t, queue |-> s0.liveSyncQueue,
                      syncing |-> s0.isSyncing])
  IN
  IF ~st.liveSyncEnabled THEN FlushReturn(clearLiveSyncQueue(st), t)
  ELSE IF Len(st.liveSyncQueue) = 0
  THEN maybeRunOrphanCleanup(st, t, FALSE, "flushEmpty")
  ELSE IF st.isSyncing
  THEN FlushReturn(
         Emit([scheduleLiveSync(st) EXCEPT
                 !.deferred = @ \cup Range(st.liveSyncQueue)],
              [type |-> "deferred", task |-> t]), t)
  ELSE FlushHashLoop([st EXCEPT !.tasks[t].queuedPaths = st.liveSyncQueue,
                                !.tasks[t].qi = 1,
                                !.tasks[t].targets = <<>>,
                                !.liveSyncQueue = <<>>], t)

\* handleIntervalSyncTick with a queue that is an array: the eligible paths
\* are appended whether queued or not.
handleIntervalSyncTickAppending(st, t) ==
  IF ~shouldUseIntervalSync(st) THEN TaskEnd(st, t)
  ELSE LET eligiblePaths == collectEligibleLiveSyncPaths(st)
       IN IF Len(eligiblePaths) > 0
          THEN LET s1 == [st EXCEPT !.liveSyncQueue = @ \o eligiblePaths]
                   s2 == updateStatusBar(s1, "pending", Len(s1.liveSyncQueue))
               IN flushLiveSyncQueue(Emit(s2, [type |-> "tick", task |-> t,
                                               eligible |-> eligiblePaths,
                                               queue |-> st.liveSyncQueue]), t)
          ELSE maybeRunOrphanCleanup(Emit(st, [type |-> "tick", task |-> t,
                                               eligible |-> eligiblePaths,
                                               queue |-> st.liveSyncQueue]),
                                     t, FALSE, "tickElse")

handleIntervalSyncTick(st, t) ==
  IF ~shouldUseIntervalSync(st) THEN TaskEnd(st, t)
  ELSE LET eligiblePaths == collectEligibleLiveSyncPaths(st)
       IN IF Len(eligiblePaths) > 0
          THEN LET s1 == [st EXCEPT !.liveSyncQueue = QueueAddAll(@, eligiblePaths)]
                   s2 == updateStatusBar(s1, "pending", Len(s1.liveSyncQueue))
               IN flushLiveSyncQueue(Emit(s2, [type |-> "tick", task |-> t,
                                               eligible |-> eligiblePaths,
                                               queue |-> st.liveSyncQueue]), t)
          ELSE maybeRunOrphanCleanup(Emit(st, [type |-> "tick", task |-> t,
                                               eligible |-> eligiblePaths,
                                               queue |-> st.liveSyncQueue]),
                                     t, FALSE, "tickElse")

(* ------------------------------------------------------------------ *)
(* The collaborators                                                    *)
(* ------------------------------------------------------------------ *)

\* The documents publisher.publish(publishFilter) uploads: the eligible
\* ones, or the one of them that publishFilter names.
PublishSet(st, publishFilter) ==
  LET all == collectEligibleLiveSyncPaths(st)
  IN IF publishFilter = NoPath THEN all
     ELSE FilterSeq(all, {publishFilter})

\* What the pipeline reports for one document: uploaded, failed with the
\* page known, failed with no page.
UploadOutcomes == {"uploaded", "failed", "failedNoPage"}

ResultOf(path, o) ==
  [path |-> path, ok |-> (o = "uploaded"),
   pageId |-> IF o = "failedNoPage" THEN None ELSE PageIdOf(path)]

\* The result of a document together with the content the pipeline read
\* from the vault and sent.
ResultWithContent(st, path, o) ==
  [path |-> path, ok |-> ResultOf(path, o).ok, pageId |-> ResultOf(path, o).pageId,
   content |-> st.vault[path]]

(* ------------------------------------------------------------------ *)
(* Actions: one turn of the event loop each                             *)
(* ------------------------------------------------------------------ *)

FreeSlots == {t \in Tasks : tasks[t].kind = "none"}

\* A new handler invocation takes the first free slot.
NewTask == CHOOSE t \in FreeSlots : \A u \in FreeSlots : t <= u

Spawn(st, t, kind) == [st EXCEPT !.tasks[t] = [NoTask EXCEPT !.kind = kind]]

\* Lines 738-744 without the comparison with the stored hash.
IsTargetUnlessUnread(stored, currentHash) == currentHash # None

\* Lines 738-744: the path is a target when its hash was computed and is
\* not the stored one.
IsTarget(stored, currentHash) ==
  IF currentHash = None THEN FALSE
  ELSE IF stored = currentHash THEN FALSE
  ELSE TRUE

\* The user or another program writes the file.  Obsidian raises "modify"
\* for a file that exists; the plugin listens to no other vault event.
VaultWrite(p, c) ==
  LET s1 == [cur EXCEPT !.vault[p] = c]
  IN /\ c \in Contents
     /\ Commit(IF vault[p] # Missing
               THEN Emit(onVaultFileModified(s1, p),
                         [type |-> "modify", path |-> p,
                          again |-> p \in Range(liveSyncQueue),
                          queue |-> liveSyncQueue,
                          timer |-> <<liveSyncTimeout, timeouts>>])
               ELSE s1)

VaultDelete(p) ==
  /\ vault[p] # Missing
  /\ Commit([cur EXCEPT !.vault[p] = Missing])

AdvanceClock ==
  /\ now < MaxTime
  /\ Commit([cur EXCEPT !.now = @ + 1])

\* The callback of scheduleLiveSync's setTimeout
DebounceFires ==
  /\ timeouts > 0
  /\ FreeSlots # {}
  /\ LET s1 == [cur EXCEPT !.timeouts = @ - 1, !.liveSyncTimeout = FALSE]
     IN Commit(flushLiveSyncQueue(Spawn(s1, NewTask, "flush"), NewTask))

\* The callback of ensureIntervalSyncTask's setInterval
IntervalFires ==
  /\ intervals > 0
  /\ FreeSlots # {}
  /\ Commit(handleIntervalSyncTick(Spawn(cur, NewTask, "tick"), NewTask))

\* vault.read of computeFileHash settles for the flush of task t.
ReadDone(t, readOk) ==
  /\ tasks[t].pc = "read"
  /\ LET me == tasks[t]
         path == me.queuedPaths[me.qi]
     IN /\ readOk => vault[path] # Missing
        /\ LET currentHash == IF readOk THEN SparkMD5Hash(vault[path]) ELSE None
               stored == MapGet(liveSyncHashes, path)
               target == IsTarget(stored, currentHash)
               s1 == [cur EXCEPT
                        !.tasks[t].targets =
                           IF target
                           THEN Append(@, [path |-> path, hash |-> currentHash])
                           ELSE @,
                        !.tasks[t].qi = @ + 1,
                        !.deferred = IF currentHash # None THEN @ \ {path} ELSE @]
               s2 == Emit(s1, [type |-> "filter", task |-> t, kind |-> me.kind, path |-> path,
                               hash |-> currentHash, stored |-> stored,
                               target |-> target])
           IN Commit(FlushHashLoop(s2, t))

\* publisher.publish settles with the results of the pipeline.
PublishReturns(t, outcome) ==
  /\ tasks[t].pc = "publish"
  /\ LET me == tasks[t]
         files == PublishSet(cur, me.filter)
     IN /\ outcome \in [Range(files) -> UploadOutcomes]
        /\ LET results == [i \in 1..Len(files) |->
                              ResultWithContent(cur, files[i], outcome[files[i]])]
               s1 == Emit([cur EXCEPT !.tasks[t].results = results],
                          [type |-> "pipeline", task |-> t, kind |-> me.kind,
                           filter |-> me.filter,
                           paths |-> {results[i].path : i \in 1..Len(results)}])
           IN Commit(IF me.cleanup
                     THEN removeBacklinkOrphans(s1, t, {results[i].path : i \in 1..Len(results)},
                                                "doPublish")
                     ELSE updateBacklinkState(s1, t))

\* publisher.publish rejects and the cycle has no catch block inside its
\* loop (lines 764-771): the error leaves the loop for the finally block.
PublishThrowsOutOfLoop(t) ==
  /\ tasks[t].pc = "publish"
  /\ Commit(IF tasks[t].kind \in {"flush", "tick"}
            THEN FlushFinally(DropLocals(cur, t, PublishLocals), t)
            ELSE UserPublishFinally(cur, t))

\* publisher.publish rejects.
PublishThrows(t) ==
  /\ tasks[t].pc = "publish"
  /\ Commit(IF tasks[t].kind \in {"flush", "tick"}
            THEN FlushPublishLoop(
                   Emit([DropLocals(cur, t, PublishLocals) EXCEPT !.tasks[t].ti = @ + 1],
                        [type |-> "threw", task |-> t, path |-> tasks[t].filter,
                         before |-> MapGet(liveSyncHashes, tasks[t].filter)]), t)
            ELSE UserPublishFinally(cur, t))

\* saveData settles.
SaveDone(t) ==
  /\ tasks[t].pc \in {"ubs_save", "hash_save", "rbo_save", "mc_save"}
  /\ Commit(CASE tasks[t].pc = "ubs_save" -> DoPublishReturn(cur, t)
              [] tasks[t].pc = "hash_save" -> FlushFinally(cur, t)
              [] tasks[t].pc = "rbo_save" -> OrphansReturn(cur, t)
              [] tasks[t].pc = "mc_save" -> CleanupReturn(cur, t))

\* The catch block with the test of line 558 left out: every error is taken
\* for a page that is gone.
OrphanDeleteFailedAsGone(st, t, error) ==
  LET entry == st.tasks[t].staleEntries[st.tasks[t].si]
  IN Suspend([DropMapping(st, t, entry.path) EXCEPT
                !.tasks[t].deletedPaths = Append(@, entry.path)],
             t, "clear_catch")

\* Lines 557-573: the catch block of removeBacklinkOrphans for entry si.
OrphanDeleteFailed(st, t, error) ==
  LET me == st.tasks[t]
      entry == me.staleEntries[me.si]
  IN IF isConfluenceNotFound(error)
     THEN Suspend([DropMapping(st, t, entry.path) EXCEPT
                     !.tasks[t].deletedPaths = Append(@, entry.path)],
                  t, "clear_catch")
     ELSE OrphansLoop([st EXCEPT
                         !.tasks[t].failedDeletions =
                            Append(@, [path |-> entry.path, reason |-> ReasonOf(error)]),
                         !.tasks[t].si = @ + 1], t)

\* Lines 553-556: deleteContent resolved for entry si.
OrphanDeleted(st, t) ==
  LET entry == st.tasks[t].staleEntries[st.tasks[t].si]
  IN Suspend([DropMapping(st, t, entry.path) EXCEPT
                !.tasks[t].deletedPaths = Append(@, entry.path)],
             t, "clear_try")

\* confluenceClient.content.deleteContent settles.
DeleteSettled(t, error) ==
  LET me == tasks[t]
  IN [type |-> "delete", task |-> t, error |-> error,
      entry |-> me.staleEntries[me.si], eligible |-> me.eligible,
      live |-> me.live, before |-> backlinkPublishState]

DeleteReturns(t) ==
  /\ tasks[t].pc = "delete"
  /\ Commit(Emit(OrphanDeleted(cur, t), DeleteSettled(t, NoError)))

DeleteThrows(t, error) ==
  /\ tasks[t].pc = "delete"
  /\ Commit(Emit(OrphanDeleteFailed(cur, t, error), DeleteSettled(t, error)))

\* adaptor.clearConfluencePageId settles.
ClearSettled(t, failed) ==
  [type |-> "clear", task |-> t, failed |-> failed, pc |-> tasks[t].pc,
   eligible |-> tasks[t].eligible, before |-> backlinkPublishState]

ClearReturns(t) ==
  /\ tasks[t].pc \in {"clear_try", "clear_catch"}
  /\ Commit(Emit(OrphansLoop([cur EXCEPT !.tasks[t].si = @ + 1], t),
                 ClearSettled(t, FALSE)))

\* adaptor.clearConfluencePageId rejects: inside the try the catch block
\* takes the error, inside the catch block removeBacklinkOrphans rejects.
ClearThrows(t) ==
  /\ tasks[t].pc \in {"clear_try", "clear_catch"}
  /\ Commit(Emit(IF tasks[t].pc = "clear_try"
                 THEN OrphanDeleteFailed(cur, t, PlainError)
                 ELSE OrphansThrow(cur, t),
                 ClearSettled(t, TRUE)))

\* The ribbon icon, the publish-all command (publishFilter None) and the
\* publish-current command (publishFilter: the active note, if any).
UserPublish(trigger, publishFilter) ==
  /\ trigger \in {"ribbon", "publish-all"} => publishFilter = NoPath
  /\ publishFilter # NoPath => vault[publishFilter] # Missing
  /\ IF isSyncing
     THEN Commit(Emit(cur, [type |-> "rejected", trigger |-> trigger]))
     ELSE /\ FreeSlots # {}
          /\ LET s1 == [Spawn(cur, NewTask, "publish") EXCEPT !.isSyncing = TRUE]
             IN Commit(doPublish(s1, NewTask, publishFilter, "undefined"))

\* The button of the settings tab: runOrphanCleanupNow
ForceCleanup ==
  /\ FreeSlots # {}
  /\ Commit(maybeRunOrphanCleanup(Spawn(cur, NewTask, "cleanup"), NewTask,
                                  TRUE, "void"))

\* A control of the settings tab changes: the setting is assigned and
\* saveSettings starts with saveData.
ChangeSetting(enabled, strategy) ==
  /\ FreeSlots # {}
  /\ enabled = liveSyncEnabled \/ strategy = liveSyncStrategy
  /\ LET s1 == [cur EXCEPT !.liveSyncEnabled = enabled,
                           !.liveSyncStrategy = strategy]
     IN Commit(Suspend(saveData(Spawn(s1, NewTask, "settings")), NewTask, "ss_save"))

\* saveSettings: saveData settled, init starts loadSettings.
SettingsSaved(t) ==
  /\ tasks[t].pc = "ss_save"
  /\ Commit(Suspend(cur, t, "ss_load"))

\* loadSettings: this.settings becomes a new object read from data.json.
\* A removeBacklinkOrphans in progress keeps the old backlinkPublishState.
loadSettings(st) ==
  [st EXCEPT
     !.liveSyncEnabled = st.disk.liveSyncEnabled,
     !.liveSyncStrategy = st.disk.liveSyncStrategy,
     !.folderToPublish = Trim(st.disk.folderToPublish),
     !.keyBacklink = st.disk.keyBacklink,
     !.lastOrphanCleanupTs = st.disk.lastOrphanCleanupTs,
     !.liveSyncHashes = st.disk.liveSyncHashes,
     !.backlinkPublishState = st.disk.backlinkPublishState,
     !.tasks = [u \in Tasks |->
                  IF st.tasks[u].pc \in {"delete", "clear_try", "clear_catch"}
                  THEN [st.tasks[u] EXCEPT !.live = FALSE]
                  ELSE st.tasks[u]]]

SettingsLoaded(t) ==
  /\ tasks[t].pc = "ss_load"
  /\ Commit(Suspend(loadSettings(cur), t, "ss_mermaid"))

\* init after getMermaidItems: lines 127-137.
InitFinishes(t) ==
  /\ tasks[t].pc = "ss_mermaid"
  /\ LET s1 == Emit(syncLiveSyncRuntimeState(cur),
                    [type |-> "synced", queue |-> liveSyncQueue,
                     timer |-> liveSyncTimeout, syncing |-> isSyncing,
                     interval |-> liveSyncIntervalId])
         s2 == [s1 EXCEPT !.tasks[t].kind = "cleanup"]
     IN Commit(maybeRunOrphanCleanup(s2, t, FALSE, "void"))

(* ------------------------------------------------------------------ *)
(* The specification                                                    *)
(* ------------------------------------------------------------------ *)

\* The persisted backlink state the plugin may start with.
InitialBacklinkStates ==
  {[q \in {PA, PB} |-> PageIdOf(q)], [q \in {PA, PB} |-> IF q = PA THEN "1" ELSE ""]}

\* The plugin has loaded (onload returned) with the given settings, within
\* the cooldown of the last orphan cleanup.
InitWith(enabled, strategy, backlinkStates) ==
  /\ liveSyncEnabled = enabled
  /\ liveSyncStrategy = strategy
  /\ folderToPublish = <<"Docs">>
  /\ keyBacklink = <<>>
  /\ lastOrphanCleanupTs = 0
  /\ liveSyncHashes = EmptyMap
  /\ backlinkPublishState \in backlinkStates
  /\ isSyncing = FALSE
  /\ liveSyncQueue = <<>>
  /\ liveSyncTimeout = FALSE
  /\ timeouts = 0
  /\ liveSyncIntervalId = (enabled /\ strategy \in {"interval", "both"})
  /\ intervals = IF enabled /\ strategy \in {"interval", "both"} THEN 1 ELSE 0
  /\ statusBar = <<"idle", 0>>
  /\ disk = [liveSyncEnabled |-> liveSyncEnabled,
             liveSyncStrategy |-> liveSyncStrategy,
             folderToPublish |-> folderToPublish,
             keyBacklink |-> keyBacklink,
             lastOrphanCleanupTs |-> lastOrphanCleanupTs,
             liveSyncHashes |-> liveSyncHashes,
             backlinkPublishState |-> backlinkPublishState]
  /\ vault = [p \in Paths |-> "x"]
  /\ metadataCache = [p \in Paths |-> [cached |-> TRUE, links |-> {}, embeds |-> {}]]
  /\ now = 1
  /\ tasks = [t \in Tasks |-> NoTask]
  /\ events = {}
  /\ deferred = {}

Init == InitWith(TRUE, "both", InitialBacklinkStates)

\* Completions of the I/O of the publish cycle; outcomes: what the pipeline
\* may report for a file.
PublishIO(outcomes) ==
  \/ \E t \in Tasks : \E outcome \in [Paths -> outcomes] :
        PublishReturns(t, [p \in Range(PublishSet(cur, tasks[t].filter)) |-> outcome[p]])
  \/ \E t \in Tasks : PublishThrows(t)
  \/ \E t \in Tasks : SaveDone(t)

\* Completions of the I/O of removeBacklinkOrphans.
CleanupIO ==
  \/ \E t \in Tasks : DeleteReturns(t)
  \/ \E t \in Tasks, error \in RemoteErrors : DeleteThrows(t, error)
  \/ \E t \in Tasks : ClearReturns(t)
  \/ \E t \in Tasks : ClearThrows(t)

\* saveSettings and init after a control of the settings tab changed.
SettingsIO ==
  \/ \E t \in Tasks : SettingsSaved(t)
  \/ \E t \in Tasks : SettingsLoaded(t)
  \/ \E t \in Tasks : InitFinishes(t)

\* The ribbon icon and the two publish commands.
UserPublishes(notes) ==
  \/ UserPublish("ribbon", NoPath)
  \/ UserPublish("publish-all", NoPath)
  \/ \E publishFilter \in notes \cup {NoPath} :
        UserPublish("publish-current", publishFilter)

Next ==
  \/ \E p \in Paths, c \in Contents : VaultWrite(p, c)
  \/ \E p \in Paths : VaultDelete(p)
  \/ AdvanceClock
  \/ DebounceFires
  \/ IntervalFires
  \/ \E t \in Tasks, readOk \in BOOLEAN : ReadDone(t, readOk)
  \/ PublishIO(UploadOutcomes)
  \/ CleanupIO
  \/ UserPublishes(Paths)
  \/ ForceCleanup
  \/ \E enabled \in BOOLEAN, strategy \in Strategies : ChangeSetting(enabled, strategy)
  \/ SettingsIO

\* Every behaviour of the plugin.
Spec == Init /\ [][Next]_vars

\* Live sync at work: the note Docs/a.md is edited and saved, the debounce
\* and the interval timer fire, the user publishes; uploads succeed or fail,
\* reads succeed or fail.  All within the cooldown of the last orphan
\* cleanup and with the settings left as they are.
NextSync ==
  \/ \E c \in Contents : VaultWrite(PA, c)
  \/ DebounceFires
  \/ IntervalFires
  \/ \E t \in Tasks, readOk \in BOOLEAN : ReadDone(t, readOk)
  \/ PublishIO({"uploaded", "failed"})
  \/ UserPublishes({PA})

SpecSync == InitWith(TRUE, "both", {EmptyMap}) /\ [][NextSync]_vars

\* Orphan cleanup at work, with live sync switched off: a note disappears,
\* the clock advances, the user forces a cleanup or edits a setting (which
\* runs init and with it the automatic cleanup); remote calls succeed or
\* fail in every way.
NextCleanup ==
  \/ VaultDelete(PA)
  \/ AdvanceClock
  \/ \E t \in Tasks : SaveDone(t)
  \/ CleanupIO
  \/ ForceCleanup
  \/ ChangeSetting(liveSyncEnabled, liveSyncStrategy)
  \/ SettingsIO

SpecCleanup == InitWith(FALSE, "on-save", InitialBacklinkStates) /\ [][NextCleanup]_vars

(* ------------------------------------------------------------------ *)
(* Properties of live sync, checked under SpecSync                      *)
(* ------------------------------------------------------------------ *)

NoDuplicates(s) == \A i, j \in 1..Len(s) : s[i] = s[j] => i = j

EventsOf(type) == {e \in events : e.type = type}

FlushTasks == {t \in Tasks : tasks[t].kind \in {"flush", "tick"}}

TargetPaths(t) == [i \in 1..Len(tasks[t].targets) |-> tasks[t].targets[i].path]

\* C1: at no time are two calls of publisher.publish in progress, whatever
\* the interleaving of the debounce flush, the interval tick, the ribbon and
\* the two publish commands.
C1_OnePublishAtATime ==
  Cardinality({t \in Tasks : tasks[t].pc = "publish"}) <= 1

\* C2: a path that was queued when a flush or a tick found a cycle in flight
\* is not dropped: until a later cycle has hashed it (and so published or
\* suppressed it) it is in the queue or among the paths a flush has still to
\* hash, unless sync was switched off or the file is gone.
C2_DeferredPathsKept ==
  \A p \in deferred :
    \/ p \in Range(liveSyncQueue)
    \/ \E t \in FlushTasks :
          /\ tasks[t].pc = "read"
          /\ \E i \in tasks[t].qi..Len(tasks[t].queuedPaths) :
                tasks[t].queuedPaths[i] = p

\* C3: a publish the user asks for while a cycle is in flight is kept: the
\* step that takes the request leaves a handler waiting or an entry queued.
C3_RequestKept ==
  [][EventsOf("rejected")' # {} =>
       (tasks' # tasks \/ liveSyncQueue' # liveSyncQueue)]_vars

C5_HashSuppression ==
  /\ \A e \in EventsOf("filter") :
        e.hash # None =>
          /\ e.hash = e.stored => e.path \notin Range(TargetPaths(e.task))
          /\ e.hash # e.stored =>
                [path |-> e.path, hash |-> e.hash] \in Range(tasks[e.task].targets)
  /\ \A t \in FlushTasks :
        Range(tasks[t].attempts) \subseteq Range(TargetPaths(t))

\* C5: a flush has hashed a path whose hash is the stored one.
C5_Witness ==
  \E e \in EventsOf("filter") : e.hash # None /\ e.hash = e.stored

(* ------------------------------------------------------------------ *)
(* Properties of the orphan cleanup, checked under SpecCleanup          *)
(* ------------------------------------------------------------------ *)

\* The tasks inside the loop of removeBacklinkOrphans
InPass(t) == tasks[t].pc \in {"delete", "clear_try", "clear_catch", "rbo_save"}

FailedPaths(t) ==
  [i \in 1..Len(tasks[t].failedDeletions) |-> tasks[t].failedDeletions[i].path]

\* The steps of a pass: its start and the settling of its remote calls
PassEvents == EventsOf("reconcile") \cup EventsOf("delete") \cup EventsOf("clear")

\* C6: a pass calls the remote delete only with the page ids of entries
\* whose path is not in currentEligiblePaths, and no step of a pass changes
\* an entry whose path is in currentEligiblePaths.
C6_OnlyStaleEntries ==
  /\ \A e \in PassEvents :
        \A p \in e.eligible \cap DOMAIN e.before :
          /\ p \in DOMAIN backlinkPublishState
          /\ backlinkPublishState[p] = e.before[p]
  /\ \A e \in EventsOf("reconcile") :
        \A i \in 1..Len(tasks[e.task].calls) :
          \E p \in (DOMAIN e.before) \ e.eligible : e.before[p] = tasks[e.task].calls[i]
  /\ \A t \in Tasks :
        InPass(t) =>
          \A i \in 1..Len(tasks[t].calls) :
            \E j \in 1..Len(tasks[t].staleEntries) :
              /\ tasks[t].staleEntries[j].pageId = tasks[t].calls[i]
              /\ tasks[t].staleEntries[j].path \notin tasks[t].eligible

\* C6: a pass awaits the remote delete of a stale entry while the state
\* holds an entry of an eligible path.
C6_Witness ==
  \E t \in Tasks :
    /\ tasks[t].pc = "delete"
    /\ tasks[t].eligible \cap DOMAIN backlinkPublishState # {}

\* The errors that say the page is not there: status 404 in one of the
\* places a client puts it, or a message that names it.
NotFoundSignals ==
  {HttpNotFound, StatusCodeNotFound, BodyNotFound, ResponseNotFound,
   DataNotFound, MessageNotFound, MessageStatusNotFound}

FailedDeletionsOf(t) ==
  IF InPass(t) THEN {tasks[t].failedDeletions}
  ELSE {e.failedDeletions : e \in {s \in EventsOf("stats") : s.task = t}}

\* C8: when the remote delete of a stale entry fails with another error,
\* the step leaves the mapping of the path as it was and the pass has one
\* failed deletion for the path, with the reason; if the pass goes on, the
\* path is not among the deleted ones, the remote delete was called once
\* for the entry, and the pass is at a later entry or past the loop.
C8_OtherErrorKeepsMapping ==
  \A e \in EventsOf("delete") :
    (e.error \in RemoteErrors \ NotFoundSignals) =>
      /\ IF e.entry.path \in DOMAIN e.before
         THEN /\ e.entry.path \in DOMAIN backlinkPublishState
              /\ backlinkPublishState[e.entry.path] = e.before[e.entry.path]
         ELSE e.entry.path \notin DOMAIN backlinkPublishState
      /\ FailedDeletionsOf(e.task) # {}
      /\ \A failed \in FailedDeletionsOf(e.task) :
            /\ Cardinality({i \in 1..Len(failed) : failed[i].path = e.entry.path}) = 1
            /\ [path |-> e.entry.path, reason |-> ReasonOf(e.error)] \in Range(failed)
      /\ InPass(e.task) =>
            /\ e.entry.path \notin Range(tasks[e.task].deletedPaths)
            /\ Cardinality({i \in 1..Len(tasks[e.task].calls) :
                             tasks[e.task].calls[i] = e.entry.pageId}) = 1
            /\ \/ tasks[e.task].pc = "rbo_save"
               \/ /\ tasks[e.task].pc = "delete"
                  /\ tasks[e.task].staleEntries[tasks[e.task].si] # e.entry

\* C8: a remote delete failed with another error and the pass went on to
\* the delete of the next stale entry.
C8_Witness ==
  \E e \in EventsOf("delete") :
    /\ e.error \in RemoteErrors \ NotFoundSignals
    /\ tasks[e.task].pc = "delete"
    /\ Len(tasks[e.task].failedDeletions) = 1

\* An automatic cleanup that is sweeping
Sweeping(t) ==
  InPass(t) /\ tasks[t].rret = "maybeRun" /\ ~tasks[t].force

\* C9: automatic cleanup triggers less than the cadence apart sweep once:
\* two sweeps of the automatic cleanup that are in progress were started at
\* least the cadence apart.
C9_OneSweepPerCadence ==
  \A t, u \in Tasks :
    (t # u /\ Sweeping(t) /\ Sweeping(u)) =>
      \/ tasks[t].now - tasks[u].now >= orphanCleanupIntervalHours
      \/ tasks[u].now - tasks[t].now >= orphanCleanupIntervalHours

\* C10: when the pass of a forced cleanup ends, with deletions, with failed
\* deletions or by failing, lastOrphanCleanupTs is the time the cleanup
\* started.
C10_ForcedUpdatesTimestamp ==
  \A e \in EventsOf("cleanup") : e.force => lastOrphanCleanupTs = e.now

FailedPathsOf(e) == {f.path : f \in Range(e.failedDeletions)}

\* C30: in the stats of one pass deletedPaths and failedDeletions share no
\* path, every stale entry with a remote id is in exactly one of them, and
\* a stale path is in deletedPaths exactly when the pass removed its
\* mapping.
C30_StatsPartitionStale ==
  \A e \in EventsOf("stats") :
    /\ Range(e.deletedPaths) \cap FailedPathsOf(e) = {}
    /\ NoDuplicates(e.deletedPaths)
    /\ \A i \in 1..Len(e.staleEntries) :
         LET entry == e.staleEntries[i]
         IN /\ entry.pageId # "" =>
                 entry.path \in Range(e.deletedPaths) \cup FailedPathsOf(e)
            /\ entry.pageId # "" =>
                 (entry.path \in Range(e.deletedPaths) <=>
                    entry.path \notin DOMAIN e.after)

\* C27: a pass without stale entries calls nothing, writes nothing and
\* returns empty stats; a pass writes the settings at most once, when its
\* last stale entry is done, and only if it removed a mapping.
C27_OneWriteAtTheEnd ==
  /\ \A e \in EventsOf("stats") :
        /\ e.saves <= 1
        /\ e.staleEntries = <<>> =>
              /\ e.calls = <<>>
              /\ e.saves = 0
              /\ e.deletedPaths = <<>>
              /\ e.failedDeletions = <<>>
        /\ e.saves = 1 =>
              \/ e.deletedPaths # <<>>
              \/ \E i \in 1..Len(e.staleEntries) : e.staleEntries[i].pageId = ""
  /\ \A t \in Tasks :
        InPass(t) =>
          IF tasks[t].pc = "rbo_save"
          THEN tasks[t].saves = 1 /\ tasks[t].si > Len(tasks[t].staleEntries)
          ELSE tasks[t].saves = 0

\* A pass over two stale entries has returned after its one write.
C27_Witness ==
  \E e \in EventsOf("stats") : Len(e.staleEntries) = 2 /\ e.saves = 1

(* ------------------------------------------------------------------ *)
(* The eligibility filter as a function of the settings, checked under  *)
(* SpecEligible                                                         *)
(* ------------------------------------------------------------------ *)

\* What the user may have typed as the folder to publish
FolderInputs ==
  {<<>>, <<"/">>, <<" ">>, <<"Docs">>, <<"Docs", "/">>, <<"Docs", "/", "/">>,
   <<"Docs", " ">>, <<" ", "Docs", "/">>, <<"Other">>, PA}

\* What the user may have typed as the required wikilink
KeyInputs == {<<>>, <<" ">>, <<"atlassian">>, <<"[[", "Atlassian", "]]">>}

\* What the metadata cache may hold for a note
CacheInputs ==
  {[cached |-> FALSE, links |-> {}, embeds |-> {}],
   [cached |-> TRUE, links |-> {}, embeds |-> {}],
   [cached |-> TRUE, links |-> {<<"Atlassian">>}, embeds |-> {}],
   [cached |-> TRUE, links |-> {<<"Other">>}, embeds |-> {<<"[[", "atlassian", "]]">>}],
   [cached |-> TRUE, links |-> {<<"Other">>}, embeds |-> {<<"Docs">>}]}

\* The plugin has loaded with live sync off and any of the settings above.
InitEligible ==
  /\ liveSyncEnabled = FALSE
  /\ liveSyncStrategy = "on-save"
  /\ folderToPublish \in FolderInputs
  /\ keyBacklink \in KeyInputs
  /\ lastOrphanCleanupTs = 0
  /\ liveSyncHashes = EmptyMap
  /\ backlinkPublishState = EmptyMap
  /\ isSyncing = FALSE
  /\ liveSyncQueue = <<>>
  /\ liveSyncTimeout = FALSE
  /\ timeouts = 0
  /\ liveSyncIntervalId = FALSE
  /\ intervals = 0
  /\ statusBar = <<"idle", 0>>
  /\ disk = [liveSyncEnabled |-> liveSyncEnabled,
             liveSyncStrategy |-> liveSyncStrategy,
             folderToPublish |-> folderToPublish,
             keyBacklink |-> keyBacklink,
             lastOrphanCleanupTs |-> lastOrphanCleanupTs,
             liveSyncHashes |-> liveSyncHashes,
             backlinkPublishState |-> backlinkPublishState]
  /\ vault = [p \in Paths |-> "x"]
  /\ metadataCache \in [Paths -> CacheInputs]
  /\ now = 1
  /\ tasks = [t \in Tasks |-> NoTask]
  /\ events = {}
  /\ deferred = {}

\* A caller asks whether the note is eligible.
EligibilityAsked(p) ==
  Commit(Emit(cur, [type |-> "eligible", path |-> p,
                    result |-> isFileEligibleForLiveSync(cur, p)]))

NextEligible == \E p \in Paths : EligibilityAsked(p)

SpecEligible == InitEligible /\ [][NextEligible]_vars

\* The rule of the eligibility filter for the note p and the scope folder
\* as given (before trailing separators are stripped).
EligibilityRule(folderGiven, p) ==
  LET folder == StripTrailingSlashes(folderGiven)
      key == normalizeBacklinkKey(keyBacklink)
      linked == IF metadataCache[p].cached
                THEN metadataCache[p].links \cup metadataCache[p].embeds
                ELSE {}
  IN \/ folder # <<>> /\ (p = folder \/ StartsWith(p, folder \o <<"/">>))
     \/ folder = <<>> /\ key = <<>>
     \/ /\ key # <<>>
        /\ \E l \in linked : ToLowerCase(normalizeBacklinkKey(l)) = ToLowerCase(key)

PC == <<"Docs", "/", "c", ".png">>

\* The plugin has loaded with any of the sync settings, the folder Docs and
\* no required wikilink.
InitEnqueue ==
  /\ liveSyncEnabled \in BOOLEAN
  /\ liveSyncStrategy \in Strategies
  /\ folderToPublish = <<"Docs">>
  /\ keyBacklink = <<>>
  /\ lastOrphanCleanupTs = 0
  /\ liveSyncHashes = EmptyMap
  /\ backlinkPublishState = EmptyMap
  /\ isSyncing = FALSE
  /\ liveSyncQueue = <<>>
  /\ liveSyncTimeout = FALSE
  /\ timeouts = 0
  /\ liveSyncIntervalId = (liveSyncEnabled /\ liveSyncStrategy \in {"interval", "both"})
  /\ intervals = IF liveSyncIntervalId THEN 1 ELSE 0
  /\ statusBar = <<"idle", 0>>
  /\ disk = [liveSyncEnabled |-> liveSyncEnabled,
             liveSyncStrategy |-> liveSyncStrategy,
             folderToPublish |-> folderToPublish,
             keyBacklink |-> keyBacklink,
             lastOrphanCleanupTs |-> lastOrphanCleanupTs,
             liveSyncHashes |-> liveSyncHashes,
             backlinkPublishState |-> backlinkPublishState]
  /\ vault = [p \in Paths \cup {PC} |-> "x"]
  /\ metadataCache = [p \in Paths |-> [cached |-> TRUE, links |-> {}, embeds |-> {}]]
  /\ now = 1
  /\ tasks = [t \in Tasks |-> NoTask]
  /\ events = {}
  /\ deferred = {}

\* Files are modified, the debounce timer fires and the flush runs, before
\* the first tick of the interval timer.
NextEnqueue ==
  \/ \E p \in Paths \cup {PC} : VaultWrite(p, "y")
  \/ DebounceFires
  \/ \E t \in Tasks, readOk \in BOOLEAN : ReadDone(t, readOk)
  \/ PublishIO({"uploaded", "failed"})

SpecEnqueue == InitEnqueue /\ [][NextEnqueue]_vars

\* The condition under which a modify event queues the path
QueuesOnModify(p) ==
  /\ liveSyncEnabled
  /\ liveSyncStrategy \in {"on-save", "both"}
  /\ Extension(p) = "md"
  /\ EligibilityRule(Trim(folderToPublish), p)

\* C12: a modify event adds its path to the queue (once) and arms the
\* debounce timer if sync is enabled, the strategy is on-save or both and
\* the file is an eligible markdown file, and otherwise leaves the queue
\* and the timer as they were; a queued path that a flush has hashed and
\* that has no stored hash is a target of the flush, and a debounce flush
\* publishes with one of the paths it took from the queue as the target.
C12_EnqueueIffEligible ==
  /\ \A e \in EventsOf("modify") :
        IF QueuesOnModify(e.path)
        THEN /\ liveSyncQueue = (IF e.again THEN e.queue ELSE Append(e.queue, e.path))
             /\ e.path \in Range(liveSyncQueue)
             /\ liveSyncTimeout /\ timeouts = 1
        ELSE /\ liveSyncQueue = e.queue
             /\ <<liveSyncTimeout, timeouts>> = e.timer
  /\ \A t \in Tasks :
        (tasks[t].kind = "flush" /\ tasks[t].pc = "publish") =>
          /\ tasks[t].filter \in Range(tasks[t].queuedPaths)
          /\ QueuesOnModify(tasks[t].filter)
  /\ \A e \in EventsOf("filter") :
        (e.hash # None /\ e.stored = None) => e.path \in Range(TargetPaths(e.task))

\* C12: Docs/a.md was modified and queued, Other/b.md is not eligible, and
\* the flush publishes with the target Docs/a.md.
C12_Witness ==
  /\ keyBacklink = <<>>
  /\ vault[PB] = "y"
  /\ \E t \in Tasks :
        /\ tasks[t].kind = "flush" /\ tasks[t].pc = "publish"
        /\ tasks[t].filter = PA /\ tasks[t].queuedPaths = <<PA>>

(* ------------------------------------------------------------------ *)
(* What a cycle records after a publish, checked under SpecPublish      *)
(* ------------------------------------------------------------------ *)

\* Live sync on save at work on the note Docs/a.md, which is edited, deleted
\* and created again at any moment of a cycle; the pipeline reports each of
\* its outcomes or throws.
NextPublish ==
  \/ \E c \in Contents : VaultWrite(PA, c)
  \/ VaultDelete(PA)
  \/ DebounceFires
  \/ \E t \in Tasks, readOk \in BOOLEAN : ReadDone(t, readOk)
  \/ PublishIO(UploadOutcomes)

SpecPublish == InitWith(TRUE, "on-save", {EmptyMap}) /\ [][NextPublish]_vars

\* The pipeline reported a successful upload of the path.
Uploaded(results, path) ==
  \E i \in 1..Len(results) : results[i].path = path /\ results[i].ok

\* C13: when the publish of a target returns without a successful upload
\* of the target, or throws, liveSyncHashes[path] is what it was before.
C13_HashKeptWithoutUpload ==
  /\ \A e \in EventsOf("published") :
        ~Uploaded(e.results, e.path) => MapGet(liveSyncHashes, e.path) = e.before
  /\ \A e \in EventsOf("threw") : MapGet(liveSyncHashes, e.path) = e.before

\* C16: when updateBacklinkState has gone through the results of the
\* pipeline, every path of the results has the page id reported for it, or
\* no entry when none was reported, and every other entry is as it was.
C16_BacklinkStateFollowsResults ==
  \A e \in EventsOf("backlinks") :
    /\ \A i \in 1..Len(e.results) :
          LET r == e.results[i]
          IN IF r.pageId # None
             THEN MapGet(backlinkPublishState, r.path) = r.pageId
             ELSE r.path \notin DOMAIN backlinkPublishState
    /\ \A q \in (DOMAIN e.before \cup DOMAIN backlinkPublishState) \
                 {e.results[i].path : i \in 1..Len(e.results)} :
          /\ q \in DOMAIN e.before
          /\ MapGet(backlinkPublishState, q) = e.before[q]

\* The pipeline reported no page id for a note that had one: its entry
\* has just been removed.
C16_Witness ==
  \E e \in EventsOf("backlinks") :
    \E i \in 1..Len(e.results) :
      /\ e.results[i].pageId = None
      /\ e.results[i].path \in DOMAIN e.before
      /\ e.results[i].path \notin DOMAIN backlinkPublishState

\* C20: the hash a cycle stores for a path after a successful upload is
\* the fingerprint of the content that the pipeline read and uploaded.
C20_HashIsOfUploadedContent ==
  \A e \in EventsOf("published") :
    \A i \in 1..Len(e.results) :
      (e.results[i].path = e.path /\ e.results[i].ok) =>
         MapGet(liveSyncHashes, e.path) = SparkMD5Hash(e.results[i].content)

(* ------------------------------------------------------------------ *)
(* The reconcile step of doPublish, checked under SpecUserPublish       *)
(* ------------------------------------------------------------------ *)

\* The user publishes everything or the current note while live sync on
\* save is at work on Docs/a.md; the backlink state has an entry for
\* Other/b.md, which is outside the folder.  Remote deletes succeed or
\* fail in every way.
NextUserPublish ==
  \/ VaultWrite(PA, "y")
  \/ DebounceFires
  \/ \E t \in Tasks : ReadDone(t, TRUE)
  \/ PublishIO({"uploaded"})
  \/ UserPublishes({PA})
  \/ CleanupIO

SpecUserPublish ==
  InitWith(TRUE, "on-save", InitialBacklinkStates) /\ [][NextUserPublish]_vars

\* doPublish was called with skipCleanup: true by the task kinds of the
\* live-sync cycle (lines 757-759) and with no options by the ribbon and
\* the commands (lines 263, 329, 371).
SkipCleanupGiven(kind) == kind \in {"flush", "tick"}

\* C17: when the pipeline call of doPublish returns, removeBacklinkOrphans
\* is called exactly if doPublish had no publishFilter and skipCleanup was
\* not true, and then with the paths of the results of this call; no task
\* is in a remote delete of doPublish's reconcile otherwise.
C17_ReconcileOnlyForUntargeted ==
  /\ \A e \in EventsOf("pipeline") :
        LET mine == {r \in EventsOf("reconcile") :
                       r.task = e.task /\ r.rret = "doPublish"}
        IN IF e.filter = NoPath /\ ~SkipCleanupGiven(e.kind)
           THEN mine # {} /\ \A r \in mine : r.eligible = e.paths
           ELSE mine = {}
  /\ \A r \in EventsOf("reconcile") :
        r.rret = "doPublish" => \E e \in EventsOf("pipeline") : e.task = r.task
  /\ \A t \in Tasks :
        (tasks[t].rret = "doPublish" /\ InPass(t)) =>
           tasks[t].filter = NoPath /\ ~SkipCleanupGiven(tasks[t].kind)

\* An untargeted publish is deleting the page of a stale entry inside
\* doPublish.
C17_Witness ==
  \E t \in Tasks :
    tasks[t].pc = "delete" /\ tasks[t].rret = "doPublish" /\ tasks[t].filter = NoPath

(* ------------------------------------------------------------------ *)
(* Cycles of several targets, checked under SpecCycle                   *)
(* ------------------------------------------------------------------ *)

\* The plugin has loaded with interval sync, no folder and no required
\* wikilink: every note is eligible.
InitCycle ==
  /\ liveSyncEnabled = TRUE
  /\ liveSyncStrategy = "interval"
  /\ folderToPublish = <<>>
  /\ keyBacklink = <<>>
  /\ lastOrphanCleanupTs = 0
  /\ liveSyncHashes = EmptyMap
  /\ backlinkPublishState = EmptyMap
  /\ isSyncing = FALSE
  /\ liveSyncQueue = <<>>
  /\ liveSyncTimeout = FALSE
  /\ timeouts = 0
  /\ liveSyncIntervalId = TRUE
  /\ intervals = 1
  /\ statusBar = <<"idle", 0>>
  /\ disk = [liveSyncEnabled |-> liveSyncEnabled,
             liveSyncStrategy |-> liveSyncStrategy,
             folderToPublish |-> folderToPublish,
             keyBacklink |-> keyBacklink,
             lastOrphanCleanupTs |-> lastOrphanCleanupTs,
             liveSyncHashes |-> liveSyncHashes,
             backlinkPublishState |-> backlinkPublishState]
  /\ vault = [p \in Paths |-> "x"]
  /\ metadataCache = [p \in Paths |-> [cached |-> TRUE, links |-> {}, embeds |-> {}]]
  /\ now = 1
  /\ tasks = [t \in Tasks |-> NoTask]
  /\ events = {}
  /\ deferred = {}

\* The interval timer ticks and every eligible note is queued; a deferred
\* tick arms the debounce timer.  The notes are left as they are.
NextCycle ==
  \/ IntervalFires
  \/ DebounceFires
  \/ \E t \in Tasks, readOk \in BOOLEAN : ReadDone(t, readOk)
  \/ PublishIO({"uploaded", "failed"})

SpecCycle == InitCycle /\ [][NextCycle]_vars

\* C14: the publish attempts of a cycle are its targets in order, one
\* attempt each: while the cycle runs the attempts made are the targets up
\* to the one in progress, whatever the earlier attempts came to, and when
\* the cycle ends every target has been attempted once.
C14_EveryTargetAttemptedOnce ==
  /\ \A t \in FlushTasks :
        tasks[t].pc \in {"publish", "ubs_save"} =>
          /\ tasks[t].ti \in 1..Len(tasks[t].targets)
          /\ tasks[t].attempts = SubSeq(TargetPaths(t), 1, tasks[t].ti)
  /\ \A e \in EventsOf("flushed") : e.attempts = e.targets

\* The second target of a cycle is being published after the publish of
\* the first failed or threw (no hash was stored for it).
C14_Witness ==
  \E t \in FlushTasks :
    /\ tasks[t].pc = "publish"
    /\ tasks[t].ti = 2
    /\ tasks[t].targets[1].path \notin DOMAIN liveSyncHashes

(* ------------------------------------------------------------------ *)
(* Settings changes during live sync, checked under SpecSettings        *)
(* ------------------------------------------------------------------ *)

\* Live sync on save at work on Docs/a.md while the user switches sync off
\* and on and changes the strategy in the settings tab; the interval timer
\* ticks when the strategy has it.
NextSettings ==
  \/ VaultWrite(PA, "y")
  \/ DebounceFires
  \/ IntervalFires
  \/ \E t \in Tasks : ReadDone(t, TRUE)
  \/ PublishIO({"uploaded"})
  \/ \E enabled \in BOOLEAN, strategy \in {"on-save", "interval"} :
        ChangeSetting(enabled, strategy)
  \/ SettingsIO

SpecSettings == InitWith(TRUE, "on-save", {EmptyMap}) /\ [][NextSettings]_vars

\* C15: when syncLiveSyncRuntimeState has run with sync disabled or with
\* the interval-only strategy, the queue is empty and no debounce timer is
\* armed, whatever they were and with or without a cycle in flight; and no
\* step taken with sync disabled adds a path to the queue or arms a timer.
C15_DisabledClearsQueueAndTimer ==
  /\ [](\A e \in EventsOf("synced") :
           (~liveSyncEnabled \/ liveSyncStrategy = "interval") =>
              /\ liveSyncQueue = <<>>
              /\ ~liveSyncTimeout
              /\ timeouts = 0)
  /\ [][(~liveSyncEnabled /\ ~liveSyncEnabled') =>
          /\ Range(liveSyncQueue') \subseteq Range(liveSyncQueue)
          /\ timeouts' <= timeouts
          /\ liveSyncTimeout' => liveSyncTimeout]_vars

\* Sync was switched off with a path queued and the timer armed while a
\* cycle was in flight, and syncLiveSyncRuntimeState has just run.
C15_Witness ==
  \E e \in EventsOf("synced") :
    ~liveSyncEnabled /\ e.queue # <<>> /\ e.timer /\ e.syncing /\ isSyncing

(* ------------------------------------------------------------------ *)
(* The status bar, checked under SpecSync                               *)
(* ------------------------------------------------------------------ *)

\* Task t is in the try block of flushLiveSyncQueue (lines 751-775): its
\* cycle is in flight.
CycleInFlight(t) ==
  t \in FlushTasks /\ tasks[t].pc \in {"publish", "ubs_save", "hash_save"}

\* C18: while a cycle is in flight the status bar shows syncing with the
\* number of targets of the cycle.
C18_SyncingWhileInFlight ==
  \A t \in Tasks :
    CycleInFlight(t) => statusBar = <<"syncing", Len(tasks[t].targets)>>

\* C19: when the status bar shows idle no cycle is in flight and the queue
\* is empty; when no cycle is in flight and the queue is not empty it shows
\* pending with the size of the queue.
C19_IdleAndPendingDerived ==
  /\ statusBar[1] = "idle" =>
        /\ \A t \in Tasks : ~CycleInFlight(t)
        /\ liveSyncQueue = <<>>
  /\ ((\A t \in Tasks : ~CycleInFlight(t)) /\ liveSyncQueue # <<>>) =>
        statusBar = <<"pending", Len(liveSyncQueue)>>

(* ------------------------------------------------------------------ *)
(* Reads that fail, checked under SpecSync                              *)
(* ------------------------------------------------------------------ *)

\* C21: a queued path whose hash could not be computed is not dropped:
\* when the flush has the failure it makes the path a target or the path
\* is in the queue.
C21_UnreadPathKept ==
  \A e \in EventsOf("filter") :
    e.hash = None =>
      \/ e.target
      \/ e.path \in Range(liveSyncQueue)

(* ------------------------------------------------------------------ *)
(* The timers, checked under SpecSettings                               *)
(* ------------------------------------------------------------------ *)

\* C22: at most one callback of the debounce timer is pending, and one is
\* pending exactly when liveSyncTimeout holds a handle.
C22_OneDebounceTimer ==
  /\ timeouts <= 1
  /\ liveSyncTimeout <=> timeouts = 1

\* A modify event has just re-armed the debounce timer that was armed.
C22_Witness ==
  \E e \in EventsOf("modify") :
    e.timer = <<TRUE, 1>> /\ liveSyncTimeout /\ timeouts = 1

\* saveSettings is between the assignment of the setting and the call of
\* syncLiveSyncRuntimeState.
InitPending == \E t \in Tasks : tasks[t].pc \in {"ss_save", "ss_load", "ss_mermaid"}

IntervalWanted == liveSyncEnabled /\ liveSyncStrategy \in {"interval", "both"}

\* C23: at most one interval timer runs, and liveSyncIntervalId holds its
\* handle; when init has run syncLiveSyncRuntimeState, and as long as no
\* later change of the settings is on its way through init, one runs
\* exactly if sync is enabled with the strategy interval or both.
C23_OneIntervalTimer ==
  /\ intervals <= 1
  /\ liveSyncIntervalId <=> intervals = 1
  /\ \A e \in EventsOf("synced") : liveSyncIntervalId <=> IntervalWanted
  /\ ~InitPending => (liveSyncIntervalId <=> IntervalWanted)

\* init has just armed the interval timer again while one was running.
C23_Witness ==
  \E e \in EventsOf("synced") : e.interval /\ liveSyncIntervalId /\ intervals = 1

(* ------------------------------------------------------------------ *)
(* The interval tick, checked under SpecTick                            *)
(* ------------------------------------------------------------------ *)

\* The plugin has loaded with interval sync and the folder Docs, with the
\* given persisted hashes and backlink states.
InitTickWith(hashes, backlinkStates) ==
  /\ liveSyncEnabled = TRUE
  /\ liveSyncStrategy = "interval"
  /\ folderToPublish = <<"Docs">>
  /\ keyBacklink = <<>>
  /\ lastOrphanCleanupTs = 0
  /\ liveSyncHashes \in hashes
  /\ backlinkPublishState \in backlinkStates
  /\ isSyncing = FALSE
  /\ liveSyncQueue = <<>>
  /\ liveSyncTimeout = FALSE
  /\ timeouts = 0
  /\ liveSyncIntervalId = TRUE
  /\ intervals = 1
  /\ statusBar = <<"idle", 0>>
  /\ disk = [liveSyncEnabled |-> liveSyncEnabled,
             liveSyncStrategy |-> liveSyncStrategy,
             folderToPublish |-> folderToPublish,
             keyBacklink |-> keyBacklink,
             lastOrphanCleanupTs |-> lastOrphanCleanupTs,
             liveSyncHashes |-> liveSyncHashes,
             backlinkPublishState |-> backlinkPublishState]
  /\ vault = [p \in Paths |-> "x"]
  /\ metadataCache = [p \in Paths |-> [cached |-> TRUE, links |-> {}, embeds |-> {}]]
  /\ now = 1
  /\ tasks = [t \in Tasks |-> NoTask]
  /\ events = {}
  /\ deferred = {}

\* The interval timer ticks while Docs/a.md is edited or deleted, within
\* the cooldown of the orphan cleanup; reads and uploads succeed or fail.
NextTick ==
  \/ VaultWrite(PA, "y")
  \/ VaultDelete(PA)
  \/ IntervalFires
  \/ DebounceFires
  \/ \E t \in Tasks, readOk \in BOOLEAN : ReadDone(t, readOk)
  \/ PublishIO({"uploaded", "failed"})

SpecTick == InitTickWith({EmptyMap}, {EmptyMap}) /\ [][NextTick]_vars

\* C24: a tick with an interval strategy queues every eligible path, each
\* path once, behind what was queued, and calls flushLiveSyncQueue with
\* that queue; with no eligible path it leaves the queue alone, does not
\* flush and calls maybeRunOrphanCleanup.
C24_TickQueuesEligibleAndFlushes ==
  \A e \in EventsOf("tick") :
    LET flushes == {f \in EventsOf("flush") : f.task = e.task}
        checks == {c \in EventsOf("cooldown") : c.task = e.task /\ c.cret = "tickElse"}
    IN /\ Range(e.eligible) =
            {p \in Paths : /\ vault[p] # Missing
                           /\ Extension(p) = "md"
                           /\ EligibilityRule(Trim(folderToPublish), p)}
       /\ IF e.eligible # <<>>
          THEN /\ checks = {}
               /\ flushes # {}
               /\ \A f \in flushes :
                     /\ Range(f.queue) = Range(e.queue) \cup Range(e.eligible)
                     /\ NoDuplicates(f.queue)
                     /\ SubSeq(f.queue, 1, Len(e.queue)) = e.queue
          ELSE /\ flushes = {}
               /\ checks # {}
               /\ liveSyncQueue = e.queue

\* A tick found Docs/a.md queued by a deferred tick and eligible: the
\* queue it flushes holds the path once.
C24_Witness ==
  \E e \in EventsOf("tick") :
    /\ e.queue = <<PA>>
    /\ e.eligible = <<PA>>
    /\ \E f \in EventsOf("flush") : f.task = e.task /\ f.queue = <<PA>>

\* The interval timer ticks; Docs/a.md, published in an earlier session
\* and edited since, is deleted and the cooldown of the orphan cleanup runs out;
\* remote deletes succeed or fail.
NextPrune ==
  \/ VaultDelete(PA)
  \/ AdvanceClock
  \/ IntervalFires
  \/ DebounceFires
  \/ \E t \in Tasks : ReadDone(t, TRUE)
  \/ PublishIO({"uploaded"})
  \/ CleanupIO

SpecPrune ==
  /\ InitTickWith({[q \in {PA} |-> SparkMD5Hash("y")]},
                  {[q \in {PB} |-> PageIdOf(q)]})
  /\ [][NextPrune]_vars

\* The hash entries of paths that are not in the vault
MissingEntries == {p \in DOMAIN liveSyncHashes : vault[p] = Missing}

\* C25: an entry of liveSyncHashes goes away only in the prune of a tick
\* and only for a path that is not in the vault; when a tick of the
\* interval strategy is over, by its prune or by an error of its cleanup,
\* no entry is left for a missing path, and the prune leaves the entries
\* of the paths in the vault as they were.
C25_OnlyPruneRemovesHashes ==
  /\ [](\A e \in EventsOf("pruned") :
           /\ MissingEntries = {}
           /\ \A p \in DOMAIN e.before :
                 vault[p] # Missing => MapGet(liveSyncHashes, p) = e.before[p])
  /\ [](\A e \in EventsOf("cleanup") :
           (e.failed /\ e.kind = "tick") => MissingEntries = {})
  /\ [][\A p \in DOMAIN liveSyncHashes :
          p \notin DOMAIN liveSyncHashes' =>
            /\ vault'[p] = Missing
            /\ \E e \in EventsOf("pruned")' : p \in DOMAIN e.before]_vars

\* C26: a flush that has no target after the hash loop has made no publish
\* call and does not set isSyncing, and it calls maybeRunOrphanCleanup;
\* when that call is over, returned or failed, the status bar shows idle.
C26_NoTargetsGoesIdle ==
  /\ \A e \in EventsOf("drained") :
        /\ e.attempts = <<>>
        /\ isSyncing = e.syncing
        /\ \A t \in Tasks : tasks[t].pc = "publish" => t # e.task
        /\ \E c \in EventsOf("cooldown") : c.task = e.task /\ c.cret = "flushNoTargets"
  /\ \A e \in EventsOf("checked") :
        e.cret = "flushNoTargets" => statusBar = <<"idle", 0>>
  /\ \A e \in EventsOf("cleanup") :
        (e.failed /\ e.cret = "flushNoTargets") => statusBar = <<"idle", 0>>

(* ------------------------------------------------------------------ *)
(* The single-flight flag, checked under SpecSync                       *)
(* ------------------------------------------------------------------ *)

\* Task t has set isSyncing and not yet reached the statement that clears
\* it: a flush in its try block, or a handler of the ribbon or of a publish
\* command.
HoldsFlag(t) == CycleInFlight(t) \/ tasks[t].kind = "publish"

\* C28: isSyncing is set exactly while a cycle that set it has not ended:
\* it is not left set without a publish in flight, and not cleared while a
\* cycle that set it is still in flight.
C28_FlagFollowsCycles ==
  isSyncing <=> \E t \in Tasks : HoldsFlag(t)

\* C29: with sync enabled, a queue that is not empty and no flush or tick
\* executing, the debounce timer is armed.
C29_QueuedImpliesTimer ==
  (liveSyncEnabled /\ liveSyncQueue # <<>> /\ FlushTasks = {}) =>
     (liveSyncTimeout /\ timeouts = 1)

\* A flush has just found a cycle in flight and returned: the queue is
\* kept and the timer armed again.
C29_Witness ==
  /\ EventsOf("deferred") # {}
  /\ liveSyncEnabled /\ liveSyncQueue # <<>> /\ FlushTasks = {}
  /\ liveSyncTimeout
====
